---- MODULE Spec2Model ----
(***************************************************************************)
(* A model of scraper.py: the regex-based reading extractor                *)
(* (extract_latest), the update-payload builder (post_to_base44) and the   *)
(* linear run of main (credentials, tanks.json, login, fetch loop, report, *)
(* forwarding loop).                                                       *)
(*                                                                         *)
(* Strings are sequences of one-character strings; the character written   *)
(* "deg" stands for the degree sign U+00B0.  An optional value (Python's    *)
(* None or a value) is the empty tuple or a one-element tuple.              *)
(***************************************************************************)
EXTENDS Integers, Sequences, FiniteSets, TLC

VARIABLES
    pc,         \* position of main: see the actions below
    environ,    \* os.environ: the four variables main reads
    file,       \* tanks.json on disk: absent, unparseable, or the JSON value it holds
    tanks,      \* main's tanks (json.load result)
    results,    \* main's results list
    idx,        \* position of `for t in tanks` (1-based, next to fetch)
    text,       \* fetch_one_tank's page text between inner_text and extract_latest
    ridx,       \* position of `for r in results` in the forwarding loop
    trace,      \* every observable event in order: printed lines and network calls
    exit_code,  \* process exit status once the run has ended, None before
    arg,        \* argument of a pure function under test
    ret         \* its return value, None before the call

vars == <<pc, environ, file, tanks, results, idx, text, ridx, trace, exit_code, arg, ret>>

mainVars == <<pc, environ, file, tanks, results, idx, text, ridx, trace, exit_code>>

----------------------------------------------------------------------------
(* Bounds of the model *)

\* longest tanks.json list
MaxTanks == 2

\* longest free text enumerated for the temperature scan
MaxLen == 4

\* longest padding around the timestamp and status phrases
MaxPad == 1

----------------------------------------------------------------------------
(* Python values *)

None == <<>>

Some(v) == <<v>>

EmptyStr == <<>>

Min(a, b) == IF a < b THEN a ELSE b

\* str.isdigit / \d for the characters of the model
Digits == {"0", "1", "2", "3", "4", "5", "6", "7", "8", "9"}

\* \s
Spaces == {" ", "\t", "\n"}

LowerLetters == {"e", "v", "r", "y", "t", "h", "i", "n", "g", "o", "k", "a", "x", "c"}

UpperLetters == {"E", "V", "R", "Y", "T", "H", "I", "N", "G", "O", "K", "A", "X", "C"}

\* \w: letters, digits and the underscore
WordChars == Digits \cup LowerLetters \cup UpperLetters \cup {"_"}

Chars == WordChars \cup Spaces \cup {"-", ".", ":", "deg"}

\* str.lower on one character
Lower(c) ==
    CASE c = "E" -> "e" [] c = "V" -> "v" [] c = "R" -> "r" [] c = "Y" -> "y"
      [] c = "T" -> "t" [] c = "H" -> "h" [] c = "I" -> "i" [] c = "N" -> "n"
      [] c = "G" -> "g" [] c = "O" -> "o" [] c = "K" -> "k" [] c = "A" -> "a"
      [] c = "X" -> "x" [] c = "C" -> "c" [] OTHER -> c

DigitVal(c) ==
    CASE c = "0" -> 0 [] c = "1" -> 1 [] c = "2" -> 2 [] c = "3" -> 3 [] c = "4" -> 4
      [] c = "5" -> 5 [] c = "6" -> 6 [] c = "7" -> 7 [] c = "8" -> 8 [] c = "9" -> 9

\* the natural number a string of digits denotes
RECURSIVE DigitsToNat(_)
DigitsToNat(s) ==
    IF s = <<>> THEN 0
    ELSE 10 * DigitsToNat(SubSeq(s, 1, Len(s) - 1)) + DigitVal(s[Len(s)])

----------------------------------------------------------------------------
(* The regular-expression engine: re.search with backtracking.             *)
(* A pattern is a sequence of items, matched left to right:                *)
(*   "cls"  min..max characters of a class, greedy (max = Unbounded: any)  *)
(*   "b"    the zero-width word boundary \b                                *)
(*   "mark" a group parenthesis: records the position                      *)
(*   "opt"  an optional non-capturing group (?: sub )?, tried first with   *)
(*          the group, then without                                       *)

Unbounded == 0 - 1

Cls(S, lo, hi) == [kind |-> "cls", cls |-> S, min |-> lo, max |-> hi, sub |-> <<>>]

Lit(c) == Cls({c}, 1, 1)

WordB == [kind |-> "b", cls |-> {}, min |-> 0, max |-> 0, sub |-> <<>>]

Mark == [kind |-> "mark", cls |-> {}, min |-> 0, max |-> 0, sub |-> <<>>]

Opt(items) == [kind |-> "opt", cls |-> {}, min |-> 0, max |-> 0, sub |-> items]

NoMatch == [ok |-> FALSE, end |-> 0, caps |-> <<>>]

\* \b at position p (between t[p-1] and t[p])
AtBoundary(t, p) ==
    LET before == p > 1 /\ t[p - 1] \in WordChars
        after == p <= Len(t) /\ t[p] \in WordChars
    IN before # after

\* how many consecutive characters of class S start at position p
RECURSIVE RunLen(_, _, _)
RunLen(t, p, S) ==
    IF p <= Len(t) /\ t[p] \in S THEN 1 + RunLen(t, p + 1, S) ELSE 0

RECURSIVE MatchItems(_, _, _)
RECURSIVE TryCount(_, _, _, _, _)

\* match the items at position p: the first success in backtracking order
MatchItems(items, t, p) ==
    IF items = <<>> THEN [ok |-> TRUE, end |-> p, caps |-> <<>>]
    ELSE
        LET it == Head(items)
            rest == Tail(items)
        IN CASE it.kind = "b" ->
                    IF AtBoundary(t, p) THEN MatchItems(rest, t, p) ELSE NoMatch
             [] it.kind = "mark" ->
                    LET r == MatchItems(rest, t, p)
                    IN IF r.ok THEN [r EXCEPT !.caps = <<p>> \o @] ELSE NoMatch
             [] it.kind = "opt" ->
                    LET r == MatchItems(it.sub \o rest, t, p)
                    IN IF r.ok THEN r ELSE MatchItems(rest, t, p)
             [] it.kind = "cls" ->
                    LET run == RunLen(t, p, it.cls)
                        hi == IF it.max = Unbounded THEN run ELSE Min(run, it.max)
                    IN TryCount(it, rest, t, p, hi)

\* a greedy quantifier: n characters first, then n-1, ... down to the minimum
TryCount(it, rest, t, p, n) ==
    IF n < it.min THEN NoMatch
    ELSE
        LET r == MatchItems(rest, t, p + n)
        IN IF r.ok THEN r ELSE TryCount(it, rest, t, p, n - 1)

RECURSIVE SearchFrom(_, _, _)
SearchFrom(items, t, p) ==
    IF p > Len(t) + 1 THEN NoMatch
    ELSE
        LET r == MatchItems(items, t, p)
        IN IF r.ok THEN r ELSE SearchFrom(items, t, p + 1)

\* re.search(pattern, t): the leftmost match
Search(items, t) == SearchFrom(items, t, 1)

\* m.group(1): the text between the two marks
Group1(t, m) == SubSeq(t, m.caps[1], m.caps[2] - 1)

\* the class of one literal character under re.IGNORECASE
FoldLit(c) == Cls({d \in Chars : Lower(d) = Lower(c)}, 1, 1)

----------------------------------------------------------------------------
(* extract_latest *)

\* the timestamp pattern with its trailing \b forgotten
TsPatternNoTrailingBoundary ==
    <<WordB, Mark,
      Cls(Digits, 4, 4), Lit("-"), Cls(Digits, 2, 2), Lit("-"), Cls(Digits, 2, 2),
      Cls(Spaces, 1, Unbounded),
      Cls(Digits, 2, 2), Lit(":"), Cls(Digits, 2, 2), Lit(":"), Cls(Digits, 2, 2),
      Mark>>

\* r"\b(\d{4}-\d{2}-\d{2}\s+\d{2}:\d{2}:\d{2})\b"
TsPattern ==
    <<WordB, Mark,
      Cls(Digits, 4, 4), Lit("-"), Cls(Digits, 2, 2), Lit("-"), Cls(Digits, 2, 2),
      Cls(Spaces, 1, Unbounded),
      Cls(Digits, 2, 2), Lit(":"), Cls(Digits, 2, 2), Lit(":"), Cls(Digits, 2, 2),
      Mark, WordB>>

\* the temperature pattern with the sign left out of the group
TempPatternNoSign ==
    <<Mark,
      Cls(Digits, 1, Unbounded),
      Opt(<<Lit("."), Cls(Digits, 1, Unbounded)>>),
      Mark,
      Cls(Spaces, 0, Unbounded), Lit("deg"), Cls(Spaces, 0, Unbounded), Lit("C")>>

\* r"(-?\d+(?:\.\d+)?)\s*°\s*C"
TempPattern ==
    <<Mark,
      Cls({"-"}, 0, 1), Cls(Digits, 1, Unbounded),
      Opt(<<Lit("."), Cls(Digits, 1, Unbounded)>>),
      Mark,
      Cls(Spaces, 0, Unbounded), Lit("deg"), Cls(Spaces, 0, Unbounded), Lit("C")>>

\* the status pattern with its trailing \b forgotten
OkPatternNoTrailingBoundary ==
    <<WordB,
      FoldLit("E"), FoldLit("v"), FoldLit("e"), FoldLit("r"), FoldLit("y"),
      FoldLit("t"), FoldLit("h"), FoldLit("i"), FoldLit("n"), FoldLit("g"),
      Cls(Spaces, 1, Unbounded),
      FoldLit("o"), FoldLit("k")>>

\* r"\bEverything\s+ok\b" with re.IGNORECASE
OkPattern ==
    <<WordB,
      FoldLit("E"), FoldLit("v"), FoldLit("e"), FoldLit("r"), FoldLit("y"),
      FoldLit("t"), FoldLit("h"), FoldLit("i"), FoldLit("n"), FoldLit("g"),
      Cls(Spaces, 1, Unbounded),
      FoldLit("o"), FoldLit("k"),
      WordB>>

\* the canonical status string of line 30
EverythingOk == <<"E", "v", "e", "r", "y", "t", "h", "i", "n", "g", " ", "o", "k">>

\* a number m / 10^e without trailing zeros in the fraction
RECURSIVE Normalize(_, _)
Normalize(m, e) ==
    IF e > 0 /\ m % 10 = 0 THEN Normalize(m \div 10, e - 1) ELSE <<m, e>>

\* position of the first "." of s, 0 when there is none
RECURSIVE DotAt(_, _)
DotAt(s, p) ==
    IF p > Len(s) THEN 0 ELSE IF s[p] = "." THEN p ELSE DotAt(s, p + 1)

\* float(s) for s of the shape -?\d+(\.\d+)?: the number as <<m, e>>, value m / 10^e.
\* Numbers this short are told apart by a double, and -0.0 == 0.0.
FloatOf(s) ==
    LET neg == s[1] = "-"
        body == IF neg THEN Tail(s) ELSE s
        dot == DotAt(body, 1)
        whole == IF dot = 0 THEN body ELSE SubSeq(body, 1, dot - 1)
        frac == IF dot = 0 THEN <<>> ELSE SubSeq(body, dot + 1, Len(body))
        n == Normalize(DigitsToNat(whole \o frac), Len(frac))
    IN IF neg THEN <<0 - n[1], n[2]>> ELSE n

extract_latest(page_text) ==
    LET ts_match == Search(TsPattern, page_text)
        timestamp == IF ts_match.ok THEN Some(Group1(page_text, ts_match)) ELSE None
        temp_match == Search(TempPattern, page_text)
        temperature_c ==
            IF temp_match.ok THEN Some(FloatOf(Group1(page_text, temp_match))) ELSE None
        ok_match == Search(OkPattern, page_text)
        status == IF ok_match.ok THEN Some(EverythingOk) ELSE None
    IN <<temperature_c, timestamp, status>>

----------------------------------------------------------------------------
(* Inputs of the extractor *)

\* all strings over alphabet A of length at most n
Strings(A, n) == UNION {[1..k -> A] : k \in 0..n}

\* "2026-01-01 12:22:09"
Ts1 == <<"2", "0", "2", "6", "-", "0", "1", "-", "0", "1", " ",
         "1", "2", ":", "2", "2", ":", "0", "9">>

\* "1999-12-31\t\n23:59:59": two whitespace characters between date and time
Ts2 == <<"1", "9", "9", "9", "-", "1", "2", "-", "3", "1", "\t", "\n",
         "2", "3", ":", "5", "9", ":", "5", "9">>

\* "2026-01-0112:22:09": no whitespace, not a timestamp
Ts3 == <<"2", "0", "2", "6", "-", "0", "1", "-", "0", "1",
         "1", "2", ":", "2", "2", ":", "0", "9">>

\* "Everything ok"
St1 == EverythingOk

\* "everything    OK"
St2 == <<"e", "v", "e", "r", "y", "t", "h", "i", "n", "g", " ", " ", " ", " ", "O", "K">>

\* "Everything okay"
St3 == EverythingOk \o <<"a", "y">>

\* "Everythingok"
St4 == <<"E", "v", "e", "r", "y", "t", "h", "i", "n", "g", "o", "k">>

\* "7.50degC"
Tail75 == <<"7", ".", "5", "0", "deg", "C">>

TempAlphabet == {"-", "0", "2", ".", " ", "deg", "C"}

PadAlphabet == {"1", "_", " ", "."}

Pads == Strings(PadAlphabet, MaxPad)

\* "-1."
HeadNeg == <<"-", "1", ".">>

TempTexts ==
    {h \o b \o tl :
        h \in {<<>>, HeadNeg}, b \in Strings(TempAlphabet, MaxLen), tl \in {<<>>, Tail75}}

TsTexts ==
    {p1 \o c1 \o p2 \o c2 \o p3 :
        p1 \in Pads, c1 \in {<<>>, Ts1, Ts2, Ts3}, p2 \in Pads, c2 \in {<<>>, Ts1},
        p3 \in Pads}

StatusTexts ==
    {p1 \o c1 \o p2 \o c2 \o p3 :
        p1 \in Pads, c1 \in {<<>>, St2, St3, St4}, p2 \in Pads, c2 \in {<<>>, St1},
        p3 \in Pads}

----------------------------------------------------------------------------
(* The extractor called on one text *)

MainIdle ==
    /\ pc = "idle"
    /\ environ = <<>>
    /\ file = [state |-> "absent", value |-> <<>>]
    /\ tanks = <<>>
    /\ results = <<>>
    /\ idx = 0
    /\ text = None
    /\ ridx = 0
    /\ trace = <<>>
    /\ exit_code = None

InitTemp == MainIdle /\ arg \in TempTexts /\ ret = None

InitTs == MainIdle /\ arg \in TsTexts /\ ret = None

InitStatus == MainIdle /\ arg \in StatusTexts /\ ret = None

CallExtractLatest ==
    /\ ret = None
    /\ ret' = Some(extract_latest(arg))
    /\ UNCHANGED <<arg, mainVars>>

NextExtract == CallExtractLatest

SpecTemp == InitTemp /\ [][NextExtract]_vars

SpecTs == InitTs /\ [][NextExtract]_vars

SpecStatus == InitStatus /\ [][NextExtract]_vars

----------------------------------------------------------------------------
(* Shapes of the claims, stated on substrings t[i..j] *)

AllIn(t, a, b, S) == \A x \in a..b : t[x] \in S

RECURSIVE Pow10(_)
Pow10(n) == IF n = 0 THEN 1 ELSE 10 * Pow10(n - 1)

\* t[i..k] is: optional -, digits, optional . digits
IsNumber(t, i, k) ==
    LET a == IF t[i] = "-" THEN i + 1 ELSE i
    IN /\ a <= k
       /\ \/ AllIn(t, a, k, Digits)
          \/ \E dot \in (a + 1)..(k - 1) :
                /\ t[dot] = "."
                /\ AllIn(t, a, dot - 1, Digits)
                /\ AllIn(t, dot + 1, k, Digits)

\* t[i..j] is a number t[i..k], optional whitespace, the degree sign, optional
\* whitespace, C
TempShaped(t, i, k, j) ==
    /\ i <= k /\ k < j /\ j <= Len(t)
    /\ IsNumber(t, i, k)
    /\ t[j] = "C"
    /\ \E g \in (k + 1)..(j - 1) :
          /\ t[g] = "deg"
          /\ AllIn(t, k + 1, g - 1, Spaces)
          /\ AllIn(t, g + 1, j - 1, Spaces)

TempStarts(t) ==
    {i \in 1..Len(t) : \E k \in i..Len(t) : \E j \in k..Len(t) : TempShaped(t, i, k, j)}

\* the digits of t[a..b] read as one natural number, skipping the point
RECURSIVE DigitSum(_, _, _)
DigitSum(t, a, b) ==
    IF b < a THEN 0
    ELSE IF t[b] \in Digits THEN 10 * DigitSum(t, a, b - 1) + DigitVal(t[b])
    ELSE DigitSum(t, a, b - 1)

\* the number written at t[i..k], as <<m, e>> for m / 10^e (not normalised)
Written(t, i, k) ==
    LET e == IF \E x \in i..k : t[x] = "."
             THEN k - (CHOOSE x \in i..k : t[x] = ".")
             ELSE 0
        m == DigitSum(t, i, k)
    IN <<IF t[i] = "-" THEN 0 - m ELSE m, e>>

SameNumber(x, y) == x[1] * Pow10(y[2]) = y[1] * Pow10(x[2])

SetMin(S) == CHOOSE x \in S : \A y \in S : x <= y

DateAt(t, i) ==
    /\ AllIn(t, i, i + 3, Digits) /\ t[i + 4] = "-"
    /\ AllIn(t, i + 5, i + 6, Digits) /\ t[i + 7] = "-"
    /\ AllIn(t, i + 8, i + 9, Digits)

TimeAt(t, p) ==
    /\ AllIn(t, p, p + 1, Digits) /\ t[p + 2] = ":"
    /\ AllIn(t, p + 3, p + 4, Digits) /\ t[p + 5] = ":"
    /\ AllIn(t, p + 6, p + 7, Digits)

\* t[i..j] is: 4 digits - 2 digits - 2 digits, whitespace, 2 digits : 2 digits : 2 digits
TsShaped(t, i, j) ==
    /\ 1 <= i /\ j <= Len(t) /\ j - i >= 18
    /\ DateAt(t, i)
    /\ AllIn(t, i + 10, j - 8, Spaces)
    /\ TimeAt(t, j - 7)

\* t[i..j] is not directly preceded or followed by a letter, digit or underscore
WordDelimited(t, i, j) ==
    /\ i = 1 \/ t[i - 1] \notin WordChars
    /\ j = Len(t) \/ t[j + 1] \notin WordChars

\* the pairs <<i, j>> with t[i..j] timestamp-shaped (the shortest shape has 19 characters)
TsPairs(t) ==
    UNION {{<<i, j>> : j \in {j \in (i + 18)..Len(t) : TsShaped(t, i, j)}} :
              i \in {i \in 1..(Len(t) - 18) : DateAt(t, i)}}

TsWordPairs(t) == {q \in TsPairs(t) : WordDelimited(t, q[1], q[2])}

FirstPair(P) == CHOOSE q \in P : \A r \in P : q[1] <= r[1]

EverythingLower == <<"e", "v", "e", "r", "y", "t", "h", "i", "n", "g">>

\* t[i..j] is, in any letter case, Everything, whitespace, ok
PhraseAt(t, i, j) ==
    /\ 1 <= i /\ j <= Len(t) /\ j - i >= 12
    /\ \A x \in 1..10 : Lower(t[i + x - 1]) = EverythingLower[x]
    /\ AllIn(t, i + 10, j - 2, Spaces)
    /\ Lower(t[j - 1]) = "o" /\ Lower(t[j]) = "k"

HasOkPhrase(t) ==
    \E i \in 1..Len(t) : \E j \in i..Len(t) : PhraseAt(t, i, j) /\ WordDelimited(t, i, j)

----------------------------------------------------------------------------
(* Claims about extract_latest *)

\* C8: temperature_c is None exactly when the text has no substring of the shape
\* "optional -, digits, optional .digits, optional whitespace, degree sign, optional
\* whitespace, C"; otherwise it is the number written in the first such substring in
\* document order (sign and fraction included), whatever follows it.
C8_FirstTemperature ==
    ret # None =>
        LET t == arg
            temperature_c == ret[1][1]
            starts == TempStarts(t)
        IN /\ (temperature_c = None) <=> (starts = {})
           /\ starts # {} =>
                LET i == SetMin(starts)
                IN \A k \in i..Len(t) :
                      (\E j \in k..Len(t) : TempShaped(t, i, k, j)) =>
                          /\ temperature_c # None
                          /\ SameNumber(temperature_c[1], Written(t, i, k))

\* C8 witness: a negative temperature with a fraction was returned from a text that
\* holds another temperature-shaped substring starting after the first one ends.
C8_Witness ==
    /\ ret # None
    /\ ret[1][1] # None
    /\ ret[1][1][1][1] < 0
    /\ ret[1][1][1][2] > 0
    /\ \E i \in TempStarts(arg) : i > SetMin(TempStarts(arg)) + 5

\* C9 as stated: last_update is the first timestamp-shaped substring, and None exactly
\* when the text has no timestamp-shaped substring (word boundaries not required).
C9_AnyShapedSubstring ==
    ret # None =>
        LET t == arg
            last_update == ret[1][2]
            P == TsPairs(t)
        IN /\ (last_update = None) <=> (P = {})
           /\ P # {} => last_update = Some(SubSeq(t, FirstPair(P)[1], FirstPair(P)[2]))

\* C9 amended: last_update is, verbatim, the first timestamp-shaped substring that is
\* delimited by word boundaries on both ends, and None exactly when the text has no
\* such word-delimited substring.
C9_FirstWordDelimitedTimestamp ==
    ret # None =>
        LET t == arg
            last_update == ret[1][2]
            P == TsWordPairs(t)
        IN /\ (last_update = None) <=> (P = {})
           /\ P # {} => last_update = Some(SubSeq(t, FirstPair(P)[1], FirstPair(P)[2]))

\* C9 witness: a timestamp was returned although an earlier timestamp-shaped substring,
\* not delimited by word boundaries, precedes it in the text.
C9_Witness ==
    /\ ret # None
    /\ ret[1][2] # None
    /\ \E q \in TsPairs(arg) : \A r \in TsWordPairs(arg) : q[1] < r[1]

\* C10: status_text is the canonical "Everything ok" exactly when the text contains, in
\* any letter case, Everything, one or more whitespace characters and ok, delimited by
\* word boundaries on both ends; otherwise it is None, as for "Everything okay".
C10_CanonicalStatus ==
    ret # None =>
        LET status_text == ret[1][3]
        IN /\ status_text = (IF HasOkPhrase(arg) THEN Some(EverythingOk) ELSE None)
           /\ arg = St3 => status_text = None

\* C10 witness: the canonical status was returned from a text in which the phrase
\* never appears in its canonical spelling.
C10_Witness ==
    /\ ret # None
    /\ ret[1][3] = Some(EverythingOk)
    /\ \A i \in 1..Len(arg) :
          i + 12 > Len(arg) \/ SubSeq(arg, i, i + 12) # EverythingOk

----------------------------------------------------------------------------
(* post_to_base44: the query parameters handed to requests.get *)

\* Python truth value of an optional string: None and "" are false
Truthy(o) == o # None /\ o[1] # EmptyStr

NoParams == [x \in {} |-> x]

\* the optional parameters added whenever the value is not None, "" included
post_to_base44_params_not_none(webhook_key, payload) ==
    ("tank_id" :> payload.tank_id)
    @@ ("temperature" :> payload.temperature_c)
    @@ (IF webhook_key # EmptyStr THEN "key" :> webhook_key ELSE NoParams)
    @@ (IF payload.tank_code # None THEN "tank_code" :> payload.tank_code ELSE NoParams)
    @@ (IF payload.last_update # None THEN "last_update" :> payload.last_update
        ELSE NoParams)
    @@ (IF payload.status_text # None THEN "status_text" :> payload.status_text
        ELSE NoParams)

\* lines 69-81: params
post_to_base44_params(webhook_key, payload) ==
    ("tank_id" :> payload.tank_id)
    @@ ("temperature" :> payload.temperature_c)
    @@ (IF webhook_key # EmptyStr THEN "key" :> webhook_key ELSE NoParams)
    @@ (IF Truthy(payload.tank_code) THEN "tank_code" :> payload.tank_code ELSE NoParams)
    @@ (IF Truthy(payload.last_update) THEN "last_update" :> payload.last_update
        ELSE NoParams)
    @@ (IF Truthy(payload.status_text) THEN "status_text" :> payload.status_text
        ELSE NoParams)

\* r.text[:200]
BodyLimit == 200

Truncate(body) == SubSeq(body, 1, Min(Len(body), BodyLimit))

KeyAbc == <<"a", "b", "c">>

Readings ==
    [tank_id : {1, 5},
     tank_code : {None, Some(EmptyStr), Some(<<"A">>)},
     temperature_c : {None, Some(<<7, 0>>), Some(<<0 - 25, 1>>)},
     last_update : {None, Some(EmptyStr), Some(Ts1)},
     status_text : {None, Some(EmptyStr), Some(EverythingOk)}]

InitParams ==
    /\ MainIdle
    /\ arg \in [webhook_key : {EmptyStr, KeyAbc}, payload : Readings]
    /\ ret = None

CallPostToBase44 ==
    /\ ret = None
    /\ ret' = Some(post_to_base44_params(arg.webhook_key, arg.payload))
    /\ UNCHANGED <<arg, mainVars>>

NextParams == CallPostToBase44

SpecParams == InitParams /\ [][NextParams]_vars

\* C4: the parameter mapping has exactly the keys tank_id and temperature (always),
\* key iff the webhook key is non-empty, and tank_code, last_update, status_text each
\* iff the reading's field is neither None nor empty; every key carries the source
\* value unchanged, and the temperature travels under "temperature", never
\* "temperature_c".
C4_ExactParams ==
    ret # None =>
        LET params == ret[1]
            r == arg.payload
            Present(v) == v # None /\ Len(v[1]) > 0
        IN /\ DOMAIN params =
                {"tank_id", "temperature"}
                \cup (IF Len(arg.webhook_key) > 0 THEN {"key"} ELSE {})
                \cup (IF Present(r.tank_code) THEN {"tank_code"} ELSE {})
                \cup (IF Present(r.last_update) THEN {"last_update"} ELSE {})
                \cup (IF Present(r.status_text) THEN {"status_text"} ELSE {})
           /\ params["tank_id"] = r.tank_id
           /\ params["temperature"] = r.temperature_c
           /\ "temperature_c" \notin DOMAIN params
           /\ "key" \in DOMAIN params => params["key"] = arg.webhook_key
           /\ "tank_code" \in DOMAIN params => params["tank_code"] = r.tank_code
           /\ "last_update" \in DOMAIN params => params["last_update"] = r.last_update
           /\ "status_text" \in DOMAIN params => params["status_text"] = r.status_text

\* C4 witness: built from a reading with an empty (not None) tank_code, no last_update,
\* a status and no webhook key, the mapping holds tank_id, temperature and status_text.
C4_Witness ==
    /\ ret # None
    /\ arg.webhook_key = EmptyStr
    /\ arg.payload.tank_code = Some(EmptyStr)
    /\ arg.payload.last_update = None
    /\ arg.payload.status_text = Some(EverythingOk)
    /\ DOMAIN ret[1] = {"tank_id", "temperature", "status_text"}

----------------------------------------------------------------------------
(* main: inputs *)

JInt(n) == [type |-> "int", n |-> n, s |-> <<>>]

JStr(c) == [type |-> "str", n |-> 0, s |-> c]

DigitChar(d) ==
    CASE d = 0 -> "0" [] d = 1 -> "1" [] d = 2 -> "2" [] d = 3 -> "3" [] d = 4 -> "4"
      [] d = 5 -> "5" [] d = 6 -> "6" [] d = 7 -> "7" [] d = 8 -> "8" [] d = 9 -> "9"

RECURSIVE NatToDigits(_)
NatToDigits(n) ==
    IF n < 10 THEN <<DigitChar(n)>> ELSE NatToDigits(n \div 10) \o <<DigitChar(n % 10)>>

\* int(x) of a JSON value: None stands for the ValueError of a non-numeric string
IntOf(j) ==
    IF j.type = "int" THEN Some(j.n)
    ELSE IF j.s # <<>> /\ \A x \in 1..Len(j.s) : j.s[x] \in Digits
         THEN Some(DigitsToNat(j.s))
         ELSE None

\* str(x) of a JSON value
StrOf(j) == IF j.type = "str" THEN j.s ELSE NatToDigits(j.n)

\* tank descriptors of tanks.json; a field that is None is a missing key
Descriptors ==
    {[tank_id |-> Some(JInt(1)), tank_code |-> Some(JStr(<<"A">>))],
     [tank_id |-> Some(JStr(<<"2">>)), tank_code |-> Some(JInt(7))],
     [tank_id |-> None, tank_code |-> Some(JStr(<<"A">>))],
     [tank_id |-> Some(JInt(4)), tank_code |-> None],
     [tank_id |-> Some(JStr(<<"x">>)), tank_code |-> Some(JStr(<<"A">>))]}

TankLists == UNION {[1..n -> Descriptors] : n \in 0..MaxTanks}

Files ==
    {[state |-> "absent", value |-> <<>>],
     [state |-> "unparseable", value |-> <<>>],
     [state |-> "number", value |-> <<>>]}
    \cup {[state |-> "list", value |-> l] : l \in TankLists}

\* "u", "p", "http"
StrU == <<"u">>

StrP == <<"p">>

StrUrl == <<"h", "t", "t", "p">>

Environs ==
    [PACCOOL_USER : {None, Some(EmptyStr), Some(StrU)},
     PACCOOL_PASS : {None, Some(EmptyStr), Some(StrP)},
     BASE44_UPDATE_URL : {None, Some(EmptyStr), Some(StrUrl)},
     WEBHOOK_KEY : {None, Some(KeyAbc)}]

\* rendered page bodies the portal may return:
\* "7.00degC 2026-01-01 12:22:09 Everything ok", a page without a temperature,
\* and "0degC"
PageFull == <<"7", ".", "0", "0", "deg", "C", " ">> \o Ts1 \o <<" ">> \o St1

PageNoTemp == Ts1

PageZero == <<"0", "deg", "C">>

PageTexts == {PageFull, PageNoTemp, PageZero}

LongBody == [x \in 1..(BodyLimit + 1) |-> "x"]

\* what requests.get does: a response, or an exception (raises |-> TRUE)
HttpOutcomes ==
    {[raises |-> FALSE, status_code |-> 200, body |-> <<"o", "k">>, exc |-> "none"],
     [raises |-> FALSE, status_code |-> 500, body |-> LongBody, exc |-> "none"],
     [raises |-> TRUE, status_code |-> 0, body |-> <<>>, exc |-> "Timeout"],
     [raises |-> TRUE, status_code |-> 0, body |-> <<>>, exc |-> "ConnectionError"]}

\* an observable event: a printed line or a network call.  i is the position in
\* tanks / results the event is about (0: none), data its payload.
Event(ev, i, tank_id, data) == [ev |-> ev, i |-> i, tank_id |-> tank_id, data |-> data]

Init ==
    /\ pc = "start"
    /\ environ \in Environs
    /\ file \in Files
    /\ tanks = <<>>
    /\ results = <<>>
    /\ idx = 0
    /\ text = None
    /\ ridx = 0
    /\ trace = <<>>
    /\ exit_code = None
    /\ arg = None
    /\ ret = None

----------------------------------------------------------------------------
(* main: steps *)

\* an uncaught exception ends the process with a traceback and status 1
Crash ==
    /\ pc' = "crashed"
    /\ exit_code' = Some(1)

\* lines 87-94
CheckCredentials ==
    /\ pc = "start"
    /\ IF ~Truthy(environ.PACCOOL_USER) \/ ~Truthy(environ.PACCOOL_PASS)
       THEN /\ trace' = Append(trace, Event("print_missing", 0, 0, <<>>))
            /\ pc' = "exited"
            /\ exit_code' = Some(1)
       ELSE /\ pc' = "open"
            /\ UNCHANGED <<trace, exit_code>>
    /\ UNCHANGED <<environ, file, tanks, results, idx, text, ridx, arg, ret>>

\* lines 96-97: open raises when the file is absent, json.load when it does not parse
LoadTanks ==
    /\ pc = "open"
    /\ IF file.state \in {"absent", "unparseable"}
       THEN /\ Crash
            /\ UNCHANGED tanks
       ELSE /\ tanks' = file
            /\ pc' = "login"
            /\ UNCHANGED exit_code
    /\ UNCHANGED <<environ, file, results, idx, text, ridx, trace, arg, ret>>

\* lines 100-106 and login: the page.goto of the login page may raise
Login ==
    /\ pc = "login"
    /\ trace' = Append(trace, Event("login", 0, 0, <<>>))
    /\ \E raised \in BOOLEAN :
          IF raised
          THEN Crash /\ UNCHANGED idx
          ELSE pc' = "fetch" /\ idx' = 1 /\ UNCHANGED exit_code
    /\ UNCHANGED <<environ, file, tanks, results, text, ridx, arg, ret>>

\* line 108 on a JSON value that is no list: TypeError
TanksNotIterable ==
    /\ pc = "fetch"
    /\ tanks.state = "number"
    /\ Crash
    /\ UNCHANGED <<environ, file, tanks, results, idx, text, ridx, trace, arg, ret>>

\* t lacks a key (KeyError) or int() rejects its tank_id (ValueError)
Malformed(t) ==
    \/ t.tank_id = None
    \/ t.tank_code = None
    \/ IntOf(t.tank_id[1]) = None

\* lines 109 and 47-52: the arguments are evaluated, then the page is fetched
FetchPage ==
    /\ pc = "fetch"
    /\ tanks.state = "list"
    /\ idx <= Len(tanks.value)
    /\ LET t == tanks.value[idx]
       IN IF Malformed(t)
          THEN Crash /\ UNCHANGED <<text, trace>>
          ELSE /\ trace' = Append(trace,
                       Event("goto", idx, IntOf(t.tank_id[1])[1], <<StrOf(t.tank_code[1])>>))
               /\ \E raised \in BOOLEAN :
                     IF raised
                     THEN Crash /\ UNCHANGED text
                     ELSE /\ \E body \in PageTexts : text' = Some(body)
                          /\ pc' = "extract"
                          /\ UNCHANGED exit_code
    /\ UNCHANGED <<environ, file, tanks, results, idx, ridx, arg, ret>>

\* results.append(res) put at the front instead
AppendResultFront(rs, res) == <<res>> \o rs

\* line 110
AppendResult(rs, res) == Append(rs, res)

\* lines 53-62 and 110
ExtractReading ==
    /\ pc = "extract"
    /\ LET t == tanks.value[idx]
           e == extract_latest(text[1])
           res == [tank_id |-> IntOf(t.tank_id[1])[1],
                   tank_code |-> Some(StrOf(t.tank_code[1])),
                   temperature_c |-> e[1],
                   last_update |-> e[2],
                   status_text |-> e[3]]
       IN results' = AppendResult(results, res)
    /\ text' = None
    /\ idx' = idx + 1
    /\ pc' = "fetch"
    /\ UNCHANGED <<environ, file, tanks, ridx, trace, exit_code, arg, ret>>

\* the lines printed for the results, in list order
RECURSIVE ResultLines(_, _)
ResultLines(rs, k) ==
    IF k > Len(rs) THEN <<>>
    ELSE <<Event("print_result", k, rs[k].tank_id, <<rs[k]>>)>> \o ResultLines(rs, k + 1)

\* `if base44_update_url:` taken whenever the variable is set, "" included
ForwardingEnabledIfSet(url) == url # None

\* line 120
ForwardingEnabled(url) == Truthy(url)

\* lines 112-121: the loop over tanks is over; report, then decide on forwarding
PrintResults ==
    /\ pc = "fetch"
    /\ tanks.state = "list"
    /\ idx > Len(tanks.value)
    /\ IF ForwardingEnabled(environ.BASE44_UPDATE_URL)
       THEN /\ trace' = trace \o <<Event("print_fetched", 0, 0, <<>>)>>
                        \o ResultLines(results, 1)
                        \o <<Event("print_pushing", 0, 0, <<>>)>>
            /\ pc' = "forward"
            /\ ridx' = 1
            /\ UNCHANGED exit_code
       ELSE /\ trace' = trace \o <<Event("print_fetched", 0, 0, <<>>)>>
                        \o ResultLines(results, 1)
            /\ pc' = "done"
            /\ exit_code' = Some(0)
            /\ UNCHANGED ridx
    /\ UNCHANGED <<environ, file, tanks, results, idx, text, arg, ret>>

\* os.environ.get("WEBHOOK_KEY", "")
webhook_key == IF environ.WEBHOOK_KEY = None THEN EmptyStr ELSE environ.WEBHOOK_KEY[1]

\* the skip test dropped: every reading is forwarded
SkipForwardNever(r) == FALSE

\* the skip test written `if not r["temperature_c"]`: 0.0 is skipped too
SkipForwardFalsy(r) == r.temperature_c = None \/ r.temperature_c[1][1] = 0

\* line 123
SkipForward(r) == r.temperature_c = None

\* lines 122-127 and 83-84: one iteration of the forwarding loop
ForwardOne ==
    /\ pc = "forward"
    /\ ridx <= Len(results)
    /\ LET r == results[ridx]
       IN IF SkipForward(r)
          THEN /\ trace' = Append(trace, Event("print_skip", ridx, r.tank_id, <<>>))
               /\ ridx' = ridx + 1
               /\ UNCHANGED <<pc, exit_code>>
          ELSE \E o \in HttpOutcomes :
                  LET get == Event("get", ridx, r.tank_id,
                                   <<post_to_base44_params(webhook_key, r), o>>)
                  IN IF o.raises
                     THEN /\ trace' = Append(trace, get)
                          /\ Crash
                          /\ UNCHANGED ridx
                     ELSE /\ trace' = trace \o
                               <<get, Event("print_update", ridx, r.tank_id,
                                            <<o.status_code, Truncate(o.body)>>)>>
                          /\ ridx' = ridx + 1
                          /\ UNCHANGED <<pc, exit_code>>
    /\ UNCHANGED <<environ, file, tanks, results, idx, text, arg, ret>>

\* the forwarding loop is over: main returns
Finish ==
    /\ pc = "forward"
    /\ ridx > Len(results)
    /\ pc' = "done"
    /\ exit_code' = Some(0)
    /\ UNCHANGED <<environ, file, tanks, results, idx, text, ridx, trace, arg, ret>>

Next ==
    \/ CheckCredentials
    \/ LoadTanks
    \/ Login
    \/ TanksNotIterable
    \/ FetchPage
    \/ ExtractReading
    \/ PrintResults
    \/ ForwardOne
    \/ Finish

Spec == Init /\ [][Next]_vars

----------------------------------------------------------------------------
(* Claims about main *)

\* positions of the trace holding an event of one of the kinds
At(kinds) == {p \in 1..Len(trace) : trace[p].ev \in kinds}

\* ... that is about position i of tanks / results
AtFor(kinds, i) == {p \in At(kinds) : trace[p].i = i}

Network == {"login", "goto", "get"}

Terminated == pc \in {"done", "exited", "crashed"}

ForwardingConfigured == environ.BASE44_UPDATE_URL \notin {None, Some(EmptyStr)}

NullTemperature(k) == results[k].temperature_c = None

\* C1: a reading whose temperature_c is None is never forwarded; once the forwarding
\* loop has passed it, exactly one skip line naming its tank has been printed; the
\* skip leaves the loop at the next reading with the run still going; a run that
\* completes has passed every reading.
C1_NullTemperatureSkipped ==
    /\ \A k \in 1..Len(results) :
          NullTemperature(k) =>
              /\ AtFor({"get", "print_update"}, k) = {}
              /\ k < ridx =>
                    /\ Cardinality(AtFor({"print_skip"}, k)) = 1
                    /\ \A p \in AtFor({"print_skip"}, k) :
                          trace[p].tank_id = results[k].tank_id
              /\ (trace # <<>> /\ trace[Len(trace)].ev = "print_skip"
                               /\ trace[Len(trace)].i = k) =>
                    /\ ridx = k + 1
                    /\ pc \in {"forward", "done"}
                    /\ exit_code \in {None, Some(0)}
    /\ (pc = "done" /\ ForwardingConfigured) => ridx = Len(results) + 1

\* C1 witness: a run completed after skipping a reading without temperature and then
\* forwarding the reading after it.
C1_Witness ==
    /\ pc = "done"
    /\ \E k \in 1..Len(results) :
          /\ NullTemperature(k)
          /\ AtFor({"print_skip"}, k) # {}
          /\ AtFor({"get"}, k + 1) # {}

FailedCall(o) == o.raises \/ o.status_code < 200 \/ o.status_code > 299

\* C2: every failed forwarding call (non-2xx status, timeout, network error) has an
\* output line for its tank and does not abort the run: once the run has ended, every
\* later reading with a temperature has been forwarded.
C2_ForwardFailureContained ==
    \A p \in At({"get"}) :
        FailedCall(trace[p].data[2]) =>
            /\ AtFor({"print_update"}, trace[p].i) # {}
            /\ pc # "crashed"
            /\ Terminated =>
                  \A k \in (trace[p].i + 1)..Len(results) :
                      ~NullTemperature(k) => AtFor({"get"}, k) # {}

\* the k-th event of the given kinds, in trace order
Nth(kinds, k) == trace[CHOOSE p \in At(kinds) : Cardinality({q \in At(kinds) : q <= p}) = k]

NumTanks == IF tanks = <<>> \/ tanks.state # "list" THEN 0 ELSE Len(tanks.value)

\* C3: pages are fetched one at a time in the order of the input list, each
\* fetch-then-extract cycle completing before the next fetch; no forward call or skip
\* line precedes the completion of the last tank's cycle; forward calls and skip lines
\* then come one tank at a time in the same order.
C3_InputOrder ==
    LET fetches == At({"goto"})
        forwards == At({"get", "print_skip"})
    IN /\ Cardinality(fetches) \in {Len(results), Len(results) + 1}
       /\ Len(results) <= NumTanks
       /\ \A k \in 1..Cardinality(fetches) :
             /\ Nth({"goto"}, k).i = k
             /\ Some(Nth({"goto"}, k).tank_id) = IntOf(tanks.value[k].tank_id[1])
             /\ Nth({"goto"}, k).data = <<StrOf(tanks.value[k].tank_code[1])>>
       /\ \A k \in 1..Len(results) :
             /\ Some(results[k].tank_id) = IntOf(tanks.value[k].tank_id[1])
             /\ results[k].tank_code = Some(StrOf(tanks.value[k].tank_code[1]))
       /\ forwards # {} =>
             /\ Len(results) = NumTanks
             /\ Cardinality(fetches) = NumTanks
             /\ \A f \in fetches : \A g \in forwards : f < g
       /\ \A k \in 1..Cardinality(forwards) :
             /\ Nth({"get", "print_skip"}, k).i = k
             /\ Some(Nth({"get", "print_skip"}, k).tank_id)
                    = IntOf(tanks.value[k].tank_id[1])

\* C3 witness: a completed run over at least two tanks with different ids, with a
\* forward call for one and a skip line for another.
C3_Witness ==
    /\ pc = "done"
    /\ Len(results) >= 2
    /\ results[1].tank_id # results[2].tank_id
    /\ At({"get"}) # {}
    /\ At({"print_skip"}) # {}

LacksKey(t) == t.tank_id = None \/ t.tank_code = None

\* the startup problems of the claim: a credential missing or empty, tanks.json absent
\* or unparseable, or a descriptor lacking tank_id or tank_code
StartupProblem ==
    \/ environ.PACCOOL_USER \in {None, Some(EmptyStr)}
    \/ environ.PACCOOL_PASS \in {None, Some(EmptyStr)}
    \/ file.state \in {"absent", "unparseable"}
    \/ /\ file.state = "list"
       /\ \E k \in 1..Len(file.value) : LacksKey(file.value[k])

\* C5: with a startup problem, no login, page fetch or forward call is ever performed,
\* and the run does not end with exit status 0.
C5_StartupProblemAbortsBeforeNetwork ==
    StartupProblem =>
        /\ At(Network) = {}
        /\ Terminated => (pc # "done" /\ exit_code # Some(0))

\* C6: with BASE44_UPDATE_URL absent or empty there is never a forward call, a skip
\* line or a forward-outcome line, and a run that completes has fetched every tank of
\* the input list and printed every reading, in order.
C6_NoUrlNoForwarding ==
    ~ForwardingConfigured =>
        /\ At({"get", "print_skip", "print_update", "print_pushing"}) = {}
        /\ pc = "done" =>
              /\ Len(results) = NumTanks
              /\ \A k \in 1..NumTanks :
                    /\ Cardinality(AtFor({"goto"}, k)) = 1
                    /\ Cardinality(AtFor({"print_result"}, k)) = 1
                    /\ Nth({"print_result"}, k).data = <<results[k]>>

\* C6 witness: a run with an empty (set, but empty) URL completed over at least two
\* tanks, one of them with a temperature.
C6_Witness ==
    /\ pc = "done"
    /\ environ.BASE44_UPDATE_URL = Some(EmptyStr)
    /\ Len(results) >= 2
    /\ \E k \in 1..Len(results) : ~NullTemperature(k)

\* C7: with a forwarding URL configured, no reading is ever forwarded twice and every
\* forward call carries the parameters built from its reading; in a run that completes
\* (no forwarding call raised) each reading with a temperature was forwarded exactly
\* once, and forward calls plus skip lines number the tanks of the input list.
C7_ForwardedExactlyOnce ==
    ForwardingConfigured =>
        /\ \A k \in 1..Len(results) : Cardinality(AtFor({"get"}, k)) <= 1
        /\ \A p \in At({"get"}) :
              /\ trace[p].i \in 1..Len(results)
              /\ LET r == results[trace[p].i]
                     params == trace[p].data[1]
                 IN /\ params["tank_id"] = r.tank_id
                    /\ params["temperature"] = r.temperature_c
                    /\ params = post_to_base44_params(webhook_key, r)
        /\ pc = "done" =>
              /\ \A k \in 1..Len(results) :
                    ~NullTemperature(k) => Cardinality(AtFor({"get"}, k)) = 1
              /\ Cardinality(At({"get"})) + Cardinality(At({"print_skip"})) = NumTanks

\* C7 witness: a completed run in which no forwarding call failed, with a forward
\* call of a 0.0 reading and a skip line.
C7_Witness ==
    /\ pc = "done"
    /\ ForwardingConfigured
    /\ At({"print_skip"}) # {}
    /\ \E p \in At({"get"}) : trace[p].data[1]["temperature"] = Some(<<0, 0>>)
    /\ \A p \in At({"get"}) : ~FailedCall(trace[p].data[2])

====
